---- MODULE Spec2Model ----
(***************************************************************************)
(* Model of the github-tag-action version resolution engine.               *)
(*                                                                         *)
(* Strings of the program whose characters matter (tag names, refs,        *)
(* identifiers, branch patterns) are sequences of one-character strings.   *)
(* Release types and boolean-like inputs, which the code only compares     *)
(* for equality or truthiness, are TLA+ strings.                           *)
(***************************************************************************)
EXTENDS Integers, Sequences, FiniteSets, TLC

(***************************************************************************)
(* Bounds of the model.                                                    *)
(***************************************************************************)
\* longest list of raw tags listTags returns
MaxTags == 2
\* longest tag string given to convertVersionFormat in the round-trip runs
MaxLen == 5
\* longest suffix of the tags given to removeDotFromPreReleaseIdentifier
MaxSuffix == 5

(***************************************************************************)
(* Characters and strings.                                                 *)
(***************************************************************************)
Digit == {"0", "1", "2", "3", "4", "5", "6", "7", "8", "9"}

DigitSeq == <<"0", "1", "2", "3", "4", "5", "6", "7", "8", "9">>

\* ASCII order of the characters an identifier may hold ('-' < digits < letters)
CharOrder ==
  <<"-", "0", "1", "2", "3", "4", "5", "6", "7", "8", "9",
    "a", "b", "c", "d", "e", "f", "g", "h", "i", "j", "k", "l", "m",
    "n", "o", "p", "q", "r", "s", "t", "u", "v", "w", "x", "y", "z">>

IdChar == {CharOrder[i] : i \in 1..Len(CharOrder)}

Ord(c) == CHOOSE i \in 1..Len(CharOrder) : CharOrder[i] = c

IsDigit(c) == c \in Digit

DigitVal(c) == (CHOOSE i \in 1..10 : DigitSeq[i] = c) - 1

AllDigits(s) == Len(s) > 0 /\ \A i \in 1..Len(s) : IsDigit(s[i])

RECURSIVE StrToNum(_)
StrToNum(s) ==
  IF Len(s) = 0 THEN 0
  ELSE 10 * StrToNum(SubSeq(s, 1, Len(s) - 1)) + DigitVal(s[Len(s)])

RECURSIVE NumToStr(_)
NumToStr(n) ==
  IF n < 10 THEN <<DigitSeq[n + 1]>>
  ELSE NumToStr(n \div 10) \o <<DigitSeq[(n % 10) + 1]>>

\* String.prototype.includes / a match of a literal anywhere in s
Contains(s, sub) ==
  \E i \in 0..(Len(s) - Len(sub)) : SubSeq(s, i + 1, i + Len(sub)) = sub

\* position of the first occurrence of sub in s, 0 when there is none
IndexOfSub(s, sub) ==
  IF Contains(s, sub)
  THEN 1 + CHOOSE i \in 0..(Len(s) - Len(sub)) :
             /\ SubSeq(s, i + 1, i + Len(sub)) = sub
             /\ \A j \in 0..(i - 1) : SubSeq(s, j + 1, j + Len(sub)) # sub
  ELSE 0

\* String.prototype.replace(literal, rep): the first occurrence only
ReplaceFirst(s, sub, rep) ==
  LET p == IndexOfSub(s, sub)
  IN IF p = 0 THEN s
     ELSE SubSeq(s, 1, p - 1) \o rep \o SubSeq(s, p + Len(sub), Len(s))

StartsWith(s, pre) == Len(s) >= Len(pre) /\ SubSeq(s, 1, Len(pre)) = pre

\* String.prototype.split(ch)
RECURSIVE Split(_, _)
Split(s, ch) ==
  LET p == IndexOfSub(s, <<ch>>)
  IN IF p = 0 THEN <<s>>
     ELSE <<SubSeq(s, 1, p - 1)>> \o Split(SubSeq(s, p + 1, Len(s)), ch)

\* Array.prototype.join(ch)
RECURSIVE Join(_, _)
Join(parts, ch) ==
  IF Len(parts) = 0 THEN <<>>
  ELSE IF Len(parts) = 1 THEN parts[1]
  ELSE parts[1] \o <<ch>> \o Join(Tail(parts), ch)

\* Array.prototype.indexOf
IndexOf(arr, x) ==
  IF \E i \in 1..Len(arr) : arr[i] = x
  THEN (CHOOSE i \in 1..Len(arr) : arr[i] = x /\ \A j \in 1..(i - 1) : arr[j] # x) - 1
  ELSE -1

\* last index j >= i such that s[i..j] are all digits (s[i] is a digit)
RECURSIVE DigitRunEnd(_, _)
DigitRunEnd(s, i) ==
  IF i < Len(s) /\ IsDigit(s[i + 1]) THEN DigitRunEnd(s, i + 1) ELSE i

(***************************************************************************)
(* convertVersionFormat.  A version format is held split on '.', as the    *)
(* code's customVersionFormat.split('.') yields it.                        *)
(***************************************************************************)
FmtFull == <<"MAJOR", "MINOR", "PATCH">>
FmtMajorMinor == <<"MAJOR", "MINOR">>
FmtMajor == <<"MAJOR">>
Formats == {FmtFull, FmtMajorMinor, FmtMajor}

\* the groups of /^(.*?)(\d+)(?:\.(\d+))?(?:\.(\d+))?(.*)$/ on a tag that holds a
\* digit; dflt is what an unmatched optional group destructures to
VersionGroups(tag, dflt) ==
  LET i  == CHOOSE k \in 1..Len(tag) :
              IsDigit(tag[k]) /\ \A j \in 1..(k - 1) : ~IsDigit(tag[j])
      e1 == DigitRunEnd(tag, i)
      hasMinor == e1 + 2 <= Len(tag) /\ tag[e1 + 1] = "." /\ IsDigit(tag[e1 + 2])
      e2 == IF hasMinor THEN DigitRunEnd(tag, e1 + 2) ELSE e1
      hasPatch == e2 + 2 <= Len(tag) /\ tag[e2 + 1] = "." /\ IsDigit(tag[e2 + 2])
      e3 == IF hasPatch THEN DigitRunEnd(tag, e2 + 2) ELSE e2
  IN [prefix |-> SubSeq(tag, 1, i - 1),
      major  |-> SubSeq(tag, i, e1),
      minor  |-> IF hasMinor THEN SubSeq(tag, e1 + 2, e2) ELSE dflt,
      patch  |-> IF hasPatch THEN SubSeq(tag, e2 + 2, e3) ELSE dflt,
      suffix |-> SubSeq(tag, e3 + 1, Len(tag))]

\* versionMap[versionItem] || ''
VersionItem(m, item) ==
  CASE item = "MAJOR" -> m.major
    [] item = "MINOR" -> m.minor
    [] item = "PATCH" -> m.patch
    [] OTHER -> <<>>

\* customVersionFormat.split('.').map(...).join('.') between prefix and suffix
FormatGroups(m, customVersionFormat) ==
  m.prefix
    \o Join([k \in 1..Len(customVersionFormat) |->
               VersionItem(m, customVersionFormat[k])], ".")
    \o m.suffix

\* convertVersionFormat without the "0" defaults of minor and patch
convertVersionFormatNoDefault(tag, customVersionFormat) ==
  IF Len(customVersionFormat) = 0 THEN tag
  ELSE IF ~\E k \in 1..Len(tag) : IsDigit(tag[k]) THEN <<>>
  ELSE FormatGroups(VersionGroups(tag, <<>>), customVersionFormat)

convertVersionFormat(tag, customVersionFormat) ==
  IF Len(customVersionFormat) = 0 THEN tag
  ELSE IF ~\E k \in 1..Len(tag) : IsDigit(tag[k]) THEN <<>>
  ELSE FormatGroups(VersionGroups(tag, <<"0">>), customVersionFormat)

(***************************************************************************)
(* The semver library, as far as the program uses it: parse, valid,        *)
(* prerelease, rcompare, gte and inc.  A version is a record whose         *)
(* prerelease identifiers are strings; an identifier of digits only is     *)
(* numeric.                                                                *)
(***************************************************************************)
NoVersion == [major |-> -1, minor |-> -1, patch |-> -1, prerelease |-> <<>>]

\* 0|[1-9]\d*
IsNumericId(s) == AllDigits(s) /\ (Len(s) = 1 \/ s[1] # "0")

\* 0|[1-9]\d*|\d*[a-zA-Z-][a-zA-Z0-9-]*
IsPreId(s) ==
  /\ Len(s) > 0
  /\ \A i \in 1..Len(s) : s[i] \in IdChar
  /\ (AllDigits(s) => IsNumericId(s))

\* new SemVer(version) in strict mode: /^v?MAIN(?:-PRERELEASE)?(?:\+BUILD)?$/;
\* NoVersion when the string does not match
parse(version) ==
  LET body == IF Len(version) > 0 /\ version[1] = "v" THEN Tail(version) ELSE version
      dash == IndexOfSub(body, <<"-">>)
      main == IF dash = 0 THEN body ELSE SubSeq(body, 1, dash - 1)
      pre  == IF dash = 0 THEN <<>> ELSE SubSeq(body, dash + 1, Len(body))
      mp   == Split(main, ".")
      pp   == IF dash = 0 THEN <<>> ELSE Split(pre, ".")
  IN IF /\ Len(mp) = 3
        /\ \A i \in 1..3 : IsNumericId(mp[i])
        /\ \A i \in 1..Len(pp) : IsPreId(pp[i])
     THEN [major |-> StrToNum(mp[1]), minor |-> StrToNum(mp[2]),
           patch |-> StrToNum(mp[3]), prerelease |-> pp]
     ELSE NoVersion

\* SemVer.format(): the version property
VersionString(v) ==
  NumToStr(v.major) \o <<".">> \o NumToStr(v.minor) \o <<".">> \o NumToStr(v.patch)
    \o (IF Len(v.prerelease) = 0 THEN <<>> ELSE <<"-">> \o Join(v.prerelease, "."))

\* semver.valid(version), as a truth value
valid(version) == parse(version) # NoVersion

\* semver.prerelease(version), as a truth value: parses and has identifiers
prerelease(version) == valid(version) /\ Len(parse(version).prerelease) > 0

\* a < b for strings, by code unit
RECURSIVE StrLess(_, _)
StrLess(a, b) ==
  IF Len(b) = 0 THEN FALSE
  ELSE IF Len(a) = 0 THEN TRUE
  ELSE IF a[1] = b[1] THEN StrLess(Tail(a), Tail(b))
  ELSE Ord(a[1]) < Ord(b[1])

\* compareIdentifiers(a, b): -1, 0 or 1
compareIdentifiers(a, b) ==
  LET anum == AllDigits(a)
      bnum == AllDigits(b)
  IN IF anum /\ bnum
     THEN (IF StrToNum(a) = StrToNum(b) THEN 0
           ELSE IF StrToNum(a) < StrToNum(b) THEN -1 ELSE 1)
     ELSE IF a = b THEN 0
     ELSE IF anum /\ ~bnum THEN -1
     ELSE IF bnum /\ ~anum THEN 1
     ELSE IF StrLess(a, b) THEN -1 ELSE 1

\* SemVer.compareMain
compareMain(a, b) ==
  IF a.major # b.major THEN (IF a.major < b.major THEN -1 ELSE 1)
  ELSE IF a.minor # b.minor THEN (IF a.minor < b.minor THEN -1 ELSE 1)
  ELSE IF a.patch # b.patch THEN (IF a.patch < b.patch THEN -1 ELSE 1)
  ELSE 0

\* the identifier loop of SemVer.comparePre, from position i
RECURSIVE comparePreFrom(_, _, _)
comparePreFrom(a, b, i) ==
  IF i > Len(a) /\ i > Len(b) THEN 0
  ELSE IF i > Len(b) THEN 1
  ELSE IF i > Len(a) THEN -1
  ELSE IF compareIdentifiers(a[i], b[i]) = 0 THEN comparePreFrom(a, b, i + 1)
  ELSE compareIdentifiers(a[i], b[i])

\* SemVer.comparePre: a version without prerelease outranks one with
comparePre(a, b) ==
  IF Len(a.prerelease) > 0 /\ Len(b.prerelease) = 0 THEN -1
  ELSE IF Len(a.prerelease) = 0 /\ Len(b.prerelease) > 0 THEN 1
  ELSE comparePreFrom(a.prerelease, b.prerelease, 1)

\* SemVer.compare on parsed versions
compare(a, b) == IF compareMain(a, b) # 0 THEN compareMain(a, b) ELSE comparePre(a, b)

\* semver.rcompare(a, b) on version strings
rcompare(a, b) == compare(parse(b), parse(a))

\* semver.gte(a, b) on version strings
gte(a, b) == compare(parse(a), parse(b)) >= 0

\* the prerelease list with its last numeric identifier raised by one, or with
\* "0" pushed when it has none (the loop of case 'pre')
BumpLastNumeric(pre) ==
  IF \E i \in 1..Len(pre) : AllDigits(pre[i])
  THEN LET i == CHOOSE k \in 1..Len(pre) :
                  AllDigits(pre[k]) /\ \A j \in (k + 1)..Len(pre) : ~AllDigits(pre[j])
       IN [pre EXCEPT ![i] = NumToStr(StrToNum(@) + 1)]
  ELSE Append(pre, <<"0">>)

\* SemVer.inc('pre', identifier)
incPre(v, identifier) ==
  LET p1 == IF Len(v.prerelease) = 0 THEN <<<<"0">>>> ELSE BumpLastNumeric(v.prerelease)
      fresh == <<identifier, <<"0">>>>
      p2 == IF Len(identifier) = 0 THEN p1
            ELSE IF compareIdentifiers(p1[1], identifier) = 0
                 THEN (IF Len(p1) < 2 \/ ~AllDigits(p1[2]) THEN fresh ELSE p1)
                 ELSE fresh
  IN [v EXCEPT !.prerelease = p2]

\* SemVer.inc('patch')
incPatch(v) ==
  [v EXCEPT !.patch = IF Len(v.prerelease) = 0 THEN @ + 1 ELSE @,
            !.prerelease = <<>>]

\* semver.inc(version, release, identifier) on a parsed version; NoVersion
\* stands for the null that an invalid release type yields
inc(v, release, identifier) ==
  CASE release = "premajor" ->
         incPre([major |-> v.major + 1, minor |-> 0, patch |-> 0,
                 prerelease |-> <<>>], identifier)
    [] release = "preminor" ->
         incPre([major |-> v.major, minor |-> v.minor + 1, patch |-> 0,
                 prerelease |-> <<>>], identifier)
    [] release = "prepatch" ->
         incPre(incPatch([v EXCEPT !.prerelease = <<>>]), identifier)
    [] release = "prerelease" ->
         incPre(IF Len(v.prerelease) = 0 THEN incPatch(v) ELSE v, identifier)
    [] release = "major" ->
         [major |-> IF v.minor # 0 \/ v.patch # 0 \/ Len(v.prerelease) = 0
                    THEN v.major + 1 ELSE v.major,
          minor |-> 0, patch |-> 0, prerelease |-> <<>>]
    [] release = "minor" ->
         [major |-> v.major,
          minor |-> IF v.patch # 0 \/ Len(v.prerelease) = 0
                    THEN v.minor + 1 ELSE v.minor,
          patch |-> 0, prerelease |-> <<>>]
    [] release = "patch" -> incPatch(v)
    [] OTHER -> NoVersion

(***************************************************************************)
(* String values of the inputs and of the repository's tags.               *)
(***************************************************************************)
RefsHeads == <<"r", "e", "f", "s", "/", "h", "e", "a", "d", "s", "/">>
RefsPull == <<"r", "e", "f", "s", "/", "p", "u", "l", "l", "/">>
RefMain == <<"r", "e", "f", "s", "/", "h", "e", "a", "d", "s", "/", "m", "a", "i", "n">>
RefRc == <<"r", "e", "f", "s", "/", "h", "e", "a", "d", "s", "/", "r", "c">>
RefPullMerge == <<"r", "e", "f", "s", "/", "p", "u", "l", "l", "/", "1", "/", "m", "e", "r", "g", "e">>
PatMasterMain == <<"m", "a", "s", "t", "e", "r", ",", "m", "a", "i", "n">>
PatAny == <<".", "*">>
PatRc == <<"r", "c">>
PatNone == <<>>
PrefixV == <<"v">>
Zero3 == <<"0", ".", "0", ".", "0">>
Sha1 == <<"s", "h", "a", "1">>
CustomNone == <<>>
Custom12 == <<"1", ".", "2">>

\* raw tag names of the repository in the runs of main
TagNames ==
  { <<"v", "1", ".", "2", ".", "3">>,
    <<"v", "1", ".", "2", ".", "3", "-", "r", "c", ".", "1">>,
    <<"v", "1", ".", "2", ".", "3", "-", "r", "c", "1">>,
    <<"v", "1", ".", "2">> }

\* raw tag names given to getValidTags alone: also a name without the prefix,
\* a name without a digit, and a name that converts to the same version as
\* another
RawTagNames ==
  TagNames \cup
  { <<"v", "1", ".", "2", ".", "0">>,
    <<"1", ".", "2", ".", "3">>,
    <<"v", "x">> }

\* the characters of the tags given to convertVersionFormat alone
FmtChars == {"v", "-", ".", "0", "1"}

\* a value no output and no version string can equal
Unset == <<"UNSET">>

(***************************************************************************)
(* State of one run of main, and of the runs that apply getValidTags or    *)
(* convertVersionFormat alone.                                             *)
(***************************************************************************)
VARIABLES
  inputs,              \* the action's inputs and environment, read by core.getInput
  repoTags,            \* what listTags returns: the repository's tags, raw
  pc,                  \* the statement main has reached
  isReleaseBranch,
  isPreReleaseBranch,
  isPullRequest,
  isPrerelease,
  identifier,
  validTags,           \* the tag objects getValidTags returned
  fallback,            \* the synthetic `${tagPrefix}0.0.0` object of getLatestTag
  latestTag,           \* 0: the fallback object, k > 0: validTags[k]
  latestPrereleaseTag, \* k > 0: validTags[k], -1: undefined
  previousTag,         \* as latestTag, -1: not assigned
  previousVersion,     \* the parsed previous version
  signal,              \* what analyzeCommits returned, "null" for no bump
  bump,                \* the local bump, "null" when there is none
  newVersion,
  newTag,
  outputs,             \* what core.setOutput has set
  failed,              \* the message given to core.setFailed, <<>> when none
  outcome,             \* how the run ended
  calls,               \* the external calls made so far, in order
  created,             \* the tags createTag was asked to create
  roundTrip,           \* a tag taken to canonical form and back
  dotRun               \* a tag given to removeDotFromPreReleaseIdentifier, twice

branchVars == <<isReleaseBranch, isPreReleaseBranch, isPullRequest, isPrerelease, identifier>>

tagVars == <<validTags, fallback, latestTag, latestPrereleaseTag>>

vars ==
  <<inputs, repoTags, pc, branchVars, tagVars, previousTag, previousVersion,
    signal, bump, newVersion, newTag, outputs, failed, outcome, calls, created, roundTrip,
    dotRun>>

(***************************************************************************)
(* utils.ts                                                                *)
(***************************************************************************)
\* prefixRegex.test(name), prefixRegex = new RegExp(`^${tagPrefix}`)
PrefixTest(name, tagPrefix) == StartsWith(name, tagPrefix)

\* name.replace(prefixRegex, '')
StripPrefix(name, tagPrefix) ==
  IF StartsWith(name, tagPrefix) THEN SubSeq(name, Len(tagPrefix) + 1, Len(name))
  ELSE name

\* the filter of getValidTags
IsValidTag(tag, tagPrefix) ==
  PrefixTest(tag.name, tagPrefix) /\ valid(StripPrefix(tag.name, tagPrefix))

\* Array.prototype.filter
RECURSIVE FilterValid(_, _)
FilterValid(tags, tagPrefix) ==
  IF Len(tags) = 0 THEN <<>>
  ELSE (IF IsValidTag(tags[1], tagPrefix) THEN <<tags[1]>> ELSE <<>>)
         \o FilterValid(Tail(tags), tagPrefix)

\* x placed into the sorted list before the first entry the comparator puts
\* after it (Array.prototype.sort is stable)
InsertSorted(sorted, x, tagPrefix) ==
  LET before(k) == rcompare(StripPrefix(x.name, tagPrefix),
                            StripPrefix(sorted[k].name, tagPrefix)) < 0
  IN IF \E k \in 1..Len(sorted) : before(k)
     THEN LET k == CHOOSE i \in 1..Len(sorted) :
                     before(i) /\ \A j \in 1..(i - 1) : ~before(j)
          IN SubSeq(sorted, 1, k - 1) \o <<x>> \o SubSeq(sorted, k, Len(sorted))
     ELSE Append(sorted, x)

\* tags.sort((a, b) => rcompare(a.name..., b.name...))
RECURSIVE SortTags(_, _)
SortTags(tags, tagPrefix) ==
  IF Len(tags) = 0 THEN <<>>
  ELSE InsertSorted(SortTags(SubSeq(tags, 1, Len(tags) - 1), tagPrefix),
                    tags[Len(tags)], tagPrefix)

\* lines 60-67: every name taken to MAJOR.MINOR.PATCH when a format is given
ConvertNames(tags, isCustomVersionFormat) ==
  IF Len(isCustomVersionFormat) > 0
  THEN [i \in 1..Len(tags) |->
          [tags[i] EXCEPT !.name = convertVersionFormat(@, FmtFull)]]
  ELSE tags

\* getValidTags that leaves the valid tags in the order listTags gave them
getValidTagsUnsorted(tags, tagPrefix, isCustomVersionFormat) ==
  FilterValid(ConvertNames(tags, isCustomVersionFormat), tagPrefix)

\* getValidTags, given what listTags returned
getValidTags(tags, tagPrefix, isCustomVersionFormat) ==
  SortTags(FilterValid(ConvertNames(tags, isCustomVersionFormat), tagPrefix),
           tagPrefix)

\* getBranchFromRef
getBranchFromRef(ref) == ReplaceFirst(ref, RefsHeads, <<>>)

\* isPr
isPr(ref) == Contains(ref, RefsPull)

\* getLatestTag: the index of the first tag that is no pre-release, 0 for the
\* synthetic fallback
getLatestTag(tags, tagPrefix) ==
  LET ok(k) == /\ PrefixTest(tags[k].name, tagPrefix)
               /\ ~prerelease(StripPrefix(tags[k].name, tagPrefix))
  IN IF \E k \in 1..Len(tags) : ok(k)
     THEN CHOOSE k \in 1..Len(tags) : ok(k) /\ \A j \in 1..(k - 1) : ~ok(j)
     ELSE 0

\* getLatestPrereleaseTag: the index of the first pre-release tag whose version
\* matches the identifier, -1 when there is none
getLatestPrereleaseTag(tags, id, tagPrefix) ==
  LET ok(k) == /\ prerelease(StripPrefix(tags[k].name, tagPrefix))
               /\ Contains(StripPrefix(tags[k].name, tagPrefix), id)
  IN IF \E k \in 1..Len(tags) : ok(k)
     THEN CHOOSE k \in 1..Len(tags) : ok(k) /\ \A j \in 1..(k - 1) : ~ok(j)
     ELSE -1

\* \w of a regular expression: [A-Za-z0-9_]
WordChar == (IdChar \ {"-"}) \cup {"_"}

\* where the first match of lit followed by \w+ starts in tag, 0 when nothing
\* matches (lit is a literal: the identifiers here are letters and digits)
FirstMatch(tag, lit) ==
  LET at(p) == /\ p + Len(lit) <= Len(tag)
               /\ SubSeq(tag, p, p + Len(lit) - 1) = lit
               /\ tag[p + Len(lit)] \in WordChar
  IN IF \E p \in 1..Len(tag) : at(p)
     THEN CHOOSE p \in 1..Len(tag) : at(p) /\ \A q \in 1..(p - 1) : ~at(q)
     ELSE 0

\* the last index of the run of \w that starts at i
RECURSIVE WordRunEnd(_, _)
WordRunEnd(s, i) ==
  IF i < Len(s) /\ s[i + 1] \in WordChar THEN WordRunEnd(s, i + 1) ELSE i

\* lines 47-50: tag.replace(/(-id)\.(\w+)/, `$1$2`), the first match only
RemoveDot(tag, appendToPreReleaseTag) ==
  LET lit == <<"-">> \o appendToPreReleaseTag \o <<".">>
      p   == FirstMatch(tag, lit)
  IN IF p = 0 THEN tag
     ELSE SubSeq(tag, 1, p + Len(lit) - 2) \o SubSeq(tag, p + Len(lit), Len(tag))

\* lines 36-45: the match of /(-id)(\w+)/ and what 'add' returns on a match
AddDot(tag, appendToPreReleaseTag, p) ==
  LET lit == <<"-">> \o appendToPreReleaseTag
      g2  == SubSeq(tag, p + Len(lit), WordRunEnd(tag, p + Len(lit)))
  IN IF g2[1] = "." THEN tag
     ELSE SubSeq(tag, 1, p + Len(lit) - 1) \o <<".">>
            \o SubSeq(tag, p + Len(lit), Len(tag))

\* removeDotFromPreReleaseIdentifier: 'add' without a match goes on to the
\* removal below it
removeDotFromPreReleaseIdentifier(tag, appendToPreReleaseTag, removeDot) ==
  LET p == FirstMatch(tag, <<"-">> \o appendToPreReleaseTag)
  IN IF removeDot = "add" /\ p # 0
     THEN AddDot(tag, appendToPreReleaseTag, p)
     ELSE RemoveDot(tag, appendToPreReleaseTag)

(***************************************************************************)
(* main: branch role and identifier (lines 260-274).                       *)
(***************************************************************************)
\* str.match(pattern): the patterns of the model are literals, '.*' or empty,
\* and match anywhere in the string
RegexMatches(str, pattern) ==
  IF pattern = PatAny \/ pattern = PatNone THEN TRUE ELSE Contains(str, pattern)

\* patterns.split(',').some((branch) => currentBranch.match(branch))
SomeMatch(patterns, str) ==
  LET list == Split(patterns, ",")
  IN \E i \in 1..Len(list) : RegexMatches(str, list[i])

\* (appendToPreReleaseTag ? appendToPreReleaseTag : currentBranch)
\*   .replace(/[^a-zA-Z0-9-]/g, '-')
Sanitize(appendToPreReleaseTag, currentBranch) ==
  LET raw == IF Len(appendToPreReleaseTag) > 0
             THEN appendToPreReleaseTag ELSE currentBranch
  IN [i \in 1..Len(raw) |-> IF raw[i] \in IdChar THEN raw[i] ELSE "-"]

\* line 268
IsPrereleaseRun(release, pullRequest, preRelease) ==
  ~release /\ ~pullRequest /\ preRelease

\* the tag object an index stands for
TagAt(i) == IF i = 0 THEN fallback ELSE validTags[i]

\* /true/i.test(dryRun), for the values "true" and "false"
DryRunSet == inputs.dryRun = "true"

\* a string input is truthy unless it is empty
Truthy(str) == str # ""

(***************************************************************************)
(* main: the bump rules.                                                   *)
(***************************************************************************)
\* patchReg.test(bump), patchReg = /patch$/
EndsInPatch(b) == b \in {"patch", "prepatch"}

\* bump.replace(patchReg, 'minor')
PatchToMinor(b) ==
  CASE b = "patch" -> "minor"
    [] b = "prepatch" -> "preminor"
    [] OTHER -> b

\* lines 390-393
Promote(b) ==
  IF Truthy(inputs.promotePatchToMinor) /\ EndsInPatch(b) THEN PatchToMinor(b) ELSE b

BumpPriority == <<"patch", "minor", "major">>

PreBumpPriority == <<"prerelease", "prepatch", "preminor", "premajor">>

\* lines 395-417: releaseType from the promoted bump b; prevHasPre is
\* previousVersion.prerelease.length > 0
ReleaseType(b, prevHasPre) ==
  IF ~isPrerelease
  THEN IF IndexOf(BumpPriority, inputs.defaultBump) > IndexOf(BumpPriority, b)
       THEN inputs.defaultBump ELSE b
  ELSE IF inputs.defaultPreReleaseBump # "prerelease" \/ ~prevHasPre
       THEN IF IndexOf(PreBumpPriority, inputs.defaultPreReleaseBump)
                 > IndexOf(PreBumpPriority, "pre" \o b)
            THEN inputs.defaultPreReleaseBump ELSE "pre" \o b
       ELSE inputs.defaultPreReleaseBump

\* lines 363-373: whether the run goes on after commit analysis
ShouldContinue(b) ==
  IF isPrerelease
  THEN ~(b = "null" /\ inputs.defaultPreReleaseBump = "false")
  ELSE ~(b = "null" /\ inputs.defaultBump = "false")

\* lines 384-386: the pre-release default stands in for a missing bump
WithPreReleaseDefault(b) ==
  IF isPrerelease /\ b = "null" THEN inputs.defaultPreReleaseBump ELSE b

(***************************************************************************)
(* The inputs a run may be given.                                          *)
(***************************************************************************)
\* the values action.yml gives the inputs that are left out
DefaultInputs ==
  [defaultBump |-> "patch", defaultPreReleaseBump |-> "prerelease",
   tagPrefix |-> PrefixV, customTag |-> CustomNone,
   releaseBranches |-> PatMasterMain, preReleaseBranches |-> PatNone,
   appendToPreReleaseTag |-> <<>>, dryRun |-> "false",
   promotePatchToMinor |-> "false", versionFormat |-> FmtFull,
   GITHUB_REF |-> RefMain, commitRef |-> Sha1]

\* the branch pattern pairs (release_branches, pre_release_branches)
BranchPatterns ==
  { <<PatMasterMain, PatNone>>, <<PatMasterMain, PatRc>>, <<PatAny, PatRc>> }

\* default_bump: the release types main ranks, one it does not rank, and false
DefaultBumps == {"patch", "minor", "major", "prerelease", "false"}

\* default_prerelease_bump: likewise
DefaultPreReleaseBumps ==
  {"prerelease", "prepatch", "preminor", "premajor", "minor", "false"}

AllInputs ==
  { [DefaultInputs EXCEPT
       !.defaultBump = d, !.defaultPreReleaseBump = dp, !.customTag = ct,
       !.releaseBranches = bp[1], !.preReleaseBranches = bp[2],
       !.dryRun = dr, !.promotePatchToMinor = pm, !.versionFormat = vf,
       !.GITHUB_REF = ref] :
      d \in DefaultBumps,
      dp \in DefaultPreReleaseBumps,
      ct \in {CustomNone, Custom12},
      bp \in BranchPatterns,
      dr \in {"false", "true"},
      pm \in {"false", "true"},
      vf \in Formats,
      ref \in {RefMain, RefRc, RefPullMerge} }

\* whether the run with inputs i is a pre-release run
PrereleaseInputs(i) ==
  IsPrereleaseRun(SomeMatch(i.releaseBranches, getBranchFromRef(i.GITHUB_REF)),
                  isPr(i.GITHUB_REF),
                  SomeMatch(i.preReleaseBranches, getBranchFromRef(i.GITHUB_REF)))

\* an input the run never reads keeps its action.yml value: the bump inputs
\* under a custom tag, default_bump in a pre-release run, and
\* default_prerelease_bump in any other run
InputSpace ==
  { i \in AllInputs :
      /\ Len(i.customTag) > 0 =>
           /\ i.defaultBump = DefaultInputs.defaultBump
           /\ i.defaultPreReleaseBump = DefaultInputs.defaultPreReleaseBump
           /\ i.promotePatchToMinor = DefaultInputs.promotePatchToMinor
      /\ PrereleaseInputs(i) => i.defaultBump = DefaultInputs.defaultBump
      /\ ~PrereleaseInputs(i) =>
           i.defaultPreReleaseBump = DefaultInputs.defaultPreReleaseBump }

\* runs without GITHUB_REF, or without commit_sha and GITHUB_SHA
BrokenEnv ==
  { [DefaultInputs EXCEPT !.GITHUB_REF = <<>>],
    [DefaultInputs EXCEPT !.commitRef = <<>>] }

\* the lists listTags may return: distinct names of the pool, each on its own
\* commit
TagLists(pool) ==
  { [i \in 1..Len(names) |-> [name |-> names[i], sha |-> names[i]]] :
      names \in { q \in UNION { [1..k -> pool] : k \in 0..MaxTags } :
                    \A i, j \in 1..Len(q) : i # j => q[i] # q[j] } }

NoOutputs ==
  [release_type |-> "UNSET", new_version |-> Unset, new_tag |-> Unset,
   previous_version |-> Unset, previous_tag |-> Unset, changelog |-> Unset]

NoDotRun ==
  [tag |-> Unset, identifier |-> <<>>, removeDot |-> "add", once |-> Unset,
   twice |-> Unset, step |-> "idle"]

NoRoundTrip ==
  [tag |-> Unset, format |-> FmtFull, canonical |-> Unset, restored |-> Unset,
   step |-> "idle"]

\* the state before main's first statement, but for inputs, repoTags and pc
Fresh ==
  /\ isReleaseBranch = FALSE
  /\ isPreReleaseBranch = FALSE
  /\ isPullRequest = FALSE
  /\ isPrerelease = FALSE
  /\ identifier = <<>>
  /\ validTags = <<>>
  /\ fallback = [name |-> Unset, sha |-> Unset]
  /\ latestTag = -1
  /\ latestPrereleaseTag = -1
  /\ previousTag = -1
  /\ previousVersion = NoVersion
  /\ signal = "null"
  /\ bump = "null"
  /\ newVersion = Unset
  /\ newTag = Unset
  /\ outputs = NoOutputs
  /\ failed = <<>>
  /\ outcome = "running"
  /\ calls = <<>>
  /\ created = <<>>

Init ==
  /\ inputs \in InputSpace \cup BrokenEnv
  /\ repoTags \in TagLists(TagNames)
  /\ pc = "start"
  /\ roundTrip = NoRoundTrip
  /\ dotRun = NoDotRun
  /\ Fresh

(***************************************************************************)
(* main, statement by statement.                                           *)
(***************************************************************************)
\* core.setFailed(msg); return
Fail(msg) ==
  /\ failed' = msg
  /\ outcome' = "failed"
  /\ pc' = "done"

\* lines 247-274: the checks of GITHUB_REF and of the commit to tag, then the
\* branch role and the identifier
Start ==
  /\ pc = "start"
  /\ IF Len(inputs.GITHUB_REF) = 0
     THEN Fail(<<"Missing GITHUB_REF.">>) /\ UNCHANGED branchVars
     ELSE IF Len(inputs.commitRef) = 0
     THEN Fail(<<"Missing commit_sha or GITHUB_SHA.">>) /\ UNCHANGED branchVars
     ELSE LET currentBranch == getBranchFromRef(inputs.GITHUB_REF)
              release == SomeMatch(inputs.releaseBranches, currentBranch)
              preRelease == SomeMatch(inputs.preReleaseBranches, currentBranch)
              pullRequest == isPr(inputs.GITHUB_REF)
          IN /\ isReleaseBranch' = release
             /\ isPreReleaseBranch' = preRelease
             /\ isPullRequest' = pullRequest
             /\ isPrerelease' = IsPrereleaseRun(release, pullRequest, preRelease)
             /\ identifier' = Sanitize(inputs.appendToPreReleaseTag, currentBranch)
             /\ pc' = "getValidTags"
             /\ UNCHANGED <<failed, outcome>>
  /\ UNCHANGED <<inputs, repoTags, tagVars, previousTag, previousVersion, signal, bump,
                 newVersion, newTag, outputs, calls, created, roundTrip, dotRun>>

\* lines 280-290: getValidTags (it is given versionFormat, a non-empty string,
\* as isCustomVersionFormat), getLatestTag and getLatestPrereleaseTag
GetValidTags ==
  /\ pc = "getValidTags"
  /\ LET vt == getValidTags(repoTags, inputs.tagPrefix, inputs.versionFormat)
     IN /\ validTags' = vt
        /\ latestTag' = getLatestTag(vt, inputs.tagPrefix)
        /\ latestPrereleaseTag' =
             getLatestPrereleaseTag(vt, identifier, inputs.tagPrefix)
  /\ fallback' = [name |-> inputs.tagPrefix \o Zero3, sha |-> <<"HEAD">>]
  /\ calls' = Append(calls, "listTags")
  /\ pc' = IF Len(inputs.customTag) > 0 THEN "customTag" ELSE "previousTag"
  /\ UNCHANGED <<inputs, repoTags, branchVars, previousTag, previousVersion,
                 signal, bump, newVersion, newTag, outputs, failed, outcome, created,
                 roundTrip, dotRun>>

\* lines 305-309: the custom tag stands for the new version
CustomTag ==
  /\ pc = "customTag"
  /\ calls' = Append(calls, "compareCommits")
  /\ outputs' = [outputs EXCEPT !.release_type = "custom"]
  /\ newVersion' = inputs.customTag
  /\ pc' = "newTag"
  /\ UNCHANGED <<inputs, repoTags, branchVars, tagVars, previousTag,
                 previousVersion, signal, bump, newTag, failed, outcome, created,
                 roundTrip, dotRun>>

\* lines 313-325: the index of the tag taken as previous
SelectPreviousTag ==
  IF latestPrereleaseTag = -1 THEN latestTag
  ELSE IF isReleaseBranch THEN latestTag
  ELSE IF gte(StripPrefix(TagAt(latestTag).name, inputs.tagPrefix),
              StripPrefix(TagAt(latestPrereleaseTag).name, inputs.tagPrefix))
       THEN latestTag
       ELSE latestPrereleaseTag

\* lines 311-351: previous tag and version; the tag object's name is rewritten
\* in place to the version format, so validTags sees the new name
PreviousTag ==
  /\ pc = "previousTag"
  /\ LET pt == SelectPreviousTag
         pv == parse(StripPrefix(TagAt(pt).name, inputs.tagPrefix))
         nm == convertVersionFormat(TagAt(pt).name, inputs.versionFormat)
     IN /\ previousTag' = pt
        /\ previousVersion' = pv
        /\ IF pt = 0
           THEN fallback' = [fallback EXCEPT !.name = nm] /\ UNCHANGED validTags
           ELSE validTags' = [validTags EXCEPT ![pt].name = nm] /\ UNCHANGED fallback
        /\ IF pv = NoVersion
           THEN /\ Fail(<<"Could not parse previous tag.">>)
                /\ UNCHANGED <<outputs, calls>>
           ELSE /\ outputs' = [outputs EXCEPT !.previous_version = VersionString(pv),
                                              !.previous_tag = nm]
                /\ calls' = Append(calls, "compareCommits")
                /\ pc' = "analyzeCommits"
                /\ UNCHANGED <<failed, outcome>>
  /\ UNCHANGED <<inputs, repoTags, branchVars, latestTag, latestPrereleaseTag,
                 signal, bump, newVersion, newTag, created, roundTrip, dotRun>>

\* lines 353-434: the bump commit analysis found (signal), the release type
\* and the incremented version
ResolveBump ==
  /\ pc = "analyzeCommits"
  /\ calls' = Append(calls, "analyzeCommits")
  /\ \E analyzed \in {"null", "patch", "minor", "major"} :
       /\ signal' = analyzed
       /\ IF ~ShouldContinue(analyzed)
          THEN /\ bump' = analyzed
               /\ outcome' = "skipped_no_bump"
               /\ pc' = "done"
               /\ UNCHANGED <<outputs, newVersion, failed>>
          ELSE LET b  == Promote(WithPreReleaseDefault(analyzed))
                   rt == ReleaseType(b, Len(previousVersion.prerelease) > 0)
                   iv == inc(previousVersion, rt, identifier)
               IN /\ bump' = IF /\ isPrerelease
                                 /\ \/ inputs.defaultPreReleaseBump # "prerelease"
                                    \/ Len(previousVersion.prerelease) = 0
                              THEN "pre" \o b ELSE b
                  /\ outputs' = [outputs EXCEPT !.release_type = rt]
                  /\ IF iv = NoVersion
                     THEN /\ Fail(<<"Could not increment version.">>)
                          /\ UNCHANGED newVersion
                     ELSE IF ~valid(VersionString(iv))
                     THEN /\ Fail(<<"not a valid semver.">>)
                          /\ UNCHANGED newVersion
                     ELSE /\ newVersion' = VersionString(iv)
                          /\ pc' = "newTag"
                          /\ UNCHANGED <<failed, outcome>>
  /\ UNCHANGED <<inputs, repoTags, branchVars, tagVars, previousTag,
                 previousVersion, newTag, created, roundTrip, dotRun>>

\* lines 437-446: new version and new tag in the version format
NewTag ==
  /\ pc = "newTag"
  /\ LET nv == convertVersionFormat(newVersion, inputs.versionFormat)
         nt == convertVersionFormat(inputs.tagPrefix \o nv, inputs.versionFormat)
     IN /\ newVersion' = nv
        /\ newTag' = nt
        /\ outputs' = [outputs EXCEPT !.new_version = nv, !.new_tag = nt]
  /\ pc' = "generateNotes"
  /\ UNCHANGED <<inputs, repoTags, branchVars, tagVars, previousTag,
                 previousVersion, signal, bump, failed, outcome, calls, created,
                 roundTrip, dotRun>>

\* line 475: validTags.map((tag) => tag.name).includes(newTag)
TagExists == \E k \in 1..Len(validTags) : validTags[k].name = newTag

\* lines 468-483 without the dry-run test
SkipReasonNoDryRun ==
  IF ~isReleaseBranch /\ ~isPreReleaseBranch THEN "skipped_branch"
  ELSE IF TagExists THEN "skipped_exists"
  ELSE "none"

\* lines 468-483: why the run ends without creating the tag, "none" if it goes on
SkipReason ==
  IF ~isReleaseBranch /\ ~isPreReleaseBranch THEN "skipped_branch"
  ELSE IF TagExists THEN "skipped_exists"
  ELSE IF DryRunSet THEN "dry_run"
  ELSE "none"

\* lines 448-483: the changelog, then the three reasons not to create the tag
GenerateNotes ==
  /\ pc = "generateNotes"
  /\ calls' = Append(calls, "generateNotes")
  /\ outputs' = [outputs EXCEPT !.changelog = <<"changelog">>]
  /\ IF SkipReason = "none"
     THEN pc' = "createTag" /\ UNCHANGED outcome
     ELSE pc' = "done" /\ outcome' = SkipReason
  /\ UNCHANGED <<inputs, repoTags, branchVars, tagVars, previousTag,
                 previousVersion, signal, bump, newVersion, newTag, failed, created,
                 roundTrip, dotRun>>

\* line 485: createTag(newTag, createAnnotatedTag, commitRef)
CreateTag ==
  /\ pc = "createTag"
  /\ calls' = Append(calls, "createTag")
  /\ created' = Append(created, newTag)
  /\ outcome' = "created"
  /\ pc' = "done"
  /\ UNCHANGED <<inputs, repoTags, branchVars, tagVars, previousTag,
                 previousVersion, signal, bump, newVersion, newTag, outputs, failed,
                 roundTrip, dotRun>>

Next ==
  \/ Start
  \/ GetValidTags
  \/ CustomTag
  \/ PreviousTag
  \/ ResolveBump
  \/ NewTag
  \/ GenerateNotes
  \/ CreateTag

Spec == Init /\ [][Next]_vars

(***************************************************************************)
(* getValidTags alone, on lists over the larger pool of raw names.         *)
(***************************************************************************)
InitTags ==
  /\ inputs \in { [DefaultInputs EXCEPT !.versionFormat = vf] : vf \in Formats }
  /\ repoTags \in TagLists(RawTagNames)
  /\ pc = "getValidTags"
  /\ roundTrip = NoRoundTrip
  /\ dotRun = NoDotRun
  /\ Fresh

NextTags == GetValidTags

SpecTags == InitTags /\ [][NextTags]_vars

(***************************************************************************)
(* convertVersionFormat alone: a tag taken to MAJOR.MINOR.PATCH and back   *)
(* to its format.                                                          *)
(***************************************************************************)
FmtTags == UNION { [1..k -> FmtChars] : k \in 0..MaxLen }

InitFmt ==
  /\ roundTrip \in { [NoRoundTrip EXCEPT !.tag = t, !.format = f, !.step = "tag"] :
                       t \in FmtTags, f \in Formats }
  /\ dotRun = NoDotRun
  /\ inputs = DefaultInputs
  /\ repoTags = <<>>
  /\ pc = "done"
  /\ Fresh

\* convertVersionFormat(tag, 'MAJOR.MINOR.PATCH'), as getValidTags applies it
ToCanonical ==
  /\ roundTrip.step = "tag"
  /\ roundTrip' = [roundTrip EXCEPT
                     !.canonical = convertVersionFormat(roundTrip.tag, FmtFull),
                     !.step = "canonical"]
  /\ UNCHANGED <<inputs, repoTags, pc, branchVars, tagVars, previousTag,
                 previousVersion, signal, bump, newVersion, newTag, outputs, failed,
                 outcome, calls, created, dotRun>>

\* convertVersionFormat(canonical, versionFormat), as main applies it
ToFormat ==
  /\ roundTrip.step = "canonical"
  /\ roundTrip' = [roundTrip EXCEPT
                     !.restored = convertVersionFormat(roundTrip.canonical,
                                                       roundTrip.format),
                     !.step = "restored"]
  /\ UNCHANGED <<inputs, repoTags, pc, branchVars, tagVars, previousTag,
                 previousVersion, signal, bump, newVersion, newTag, outputs, failed,
                 outcome, calls, created, dotRun>>

NextFmt == ToCanonical \/ ToFormat

SpecFmt == InitFmt /\ [][NextFmt]_vars

(***************************************************************************)
(* removeDotFromPreReleaseIdentifier alone: applied to a tag, then to its  *)
(* own result.                                                             *)
(***************************************************************************)
\* the characters of the suffixes
DotChars == {"-", ".", "r", "c", "1"}

\* the tags: v1 and a suffix
DotTags == { <<"v", "1">> \o x : x \in UNION { [1..k -> DotChars] : k \in 0..MaxSuffix } }

\* the identifiers: rc, and r, which is also the start of rc
DotIdentifiers == { <<"r", "c">>, <<"r">> }

InitDot ==
  /\ dotRun \in { [NoDotRun EXCEPT !.tag = t, !.identifier = id, !.removeDot = m,
                                   !.step = "tag"] :
                    t \in DotTags, id \in DotIdentifiers, m \in {"add", "remove"} }
  /\ roundTrip = NoRoundTrip
  /\ inputs = DefaultInputs
  /\ repoTags = <<>>
  /\ pc = "done"
  /\ Fresh

\* removeDotFromPreReleaseIdentifier(tag, identifier, removeDot)
ApplyOnce ==
  /\ dotRun.step = "tag"
  /\ dotRun' = [dotRun EXCEPT
                  !.once = removeDotFromPreReleaseIdentifier(
                             dotRun.tag, dotRun.identifier, dotRun.removeDot),
                  !.step = "once"]
  /\ UNCHANGED <<inputs, repoTags, pc, branchVars, tagVars, previousTag,
                 previousVersion, signal, bump, newVersion, newTag, outputs, failed,
                 outcome, calls, created, roundTrip>>

\* the same call on the result of the first
ApplyTwice ==
  /\ dotRun.step = "once"
  /\ dotRun' = [dotRun EXCEPT
                  !.twice = removeDotFromPreReleaseIdentifier(
                              dotRun.once, dotRun.identifier, dotRun.removeDot),
                  !.step = "twice"]
  /\ UNCHANGED <<inputs, repoTags, pc, branchVars, tagVars, previousTag,
                 previousVersion, signal, bump, newVersion, newTag, outputs, failed,
                 outcome, calls, created, roundTrip>>

NextDot == ApplyOnce \/ ApplyTwice

SpecDot == InitDot /\ [][NextDot]_vars

(***************************************************************************)
(* Properties.                                                             *)
(***************************************************************************)
Called(name) == \E i \in 1..Len(calls) : calls[i] = name

\* commit analysis has returned and the run went on to a release type
Resolved == Called("analyzeCommits") /\ outputs.release_type # "UNSET"

Bumps == {"patch", "minor", "major"}

\* whichever of two bumps ranks lower in patch < minor < major
LowerRank(x, y) ==
  IF IndexOf(BumpPriority, x) <= IndexOf(BumpPriority, y) THEN x ELSE y

\* C1: on a release branch, for a bump signal b and a default_bump d among
\* patch, minor and major, with promotion not changing b, release_type is the
\* lower-ranked of d and b, so never above the default (d = patch, b = major
\* gives patch).
C1_ReleaseTypeIsLowerRank ==
  ( /\ Resolved
    /\ isReleaseBranch
    /\ signal \in Bumps
    /\ inputs.defaultBump \in Bumps
    /\ bump = signal )
  => outputs.release_type = LowerRank(inputs.defaultBump, signal)

\* the names the repository has that pass prefix and semver validation
ExistingValidNames ==
  { repoTags[k].name : k \in { j \in 1..Len(repoTags) :
      IsValidTag([repoTags[j] EXCEPT !.name = convertVersionFormat(@, FmtFull)],
                 inputs.tagPrefix) } }

\* C2: whenever the new_tag main computes is the name of a tag the repository
\* already has (a listed tag that passes validation), createTag is not called
\* and the run does not fail, for every version_format and with or without
\* custom_tag.
C2_ExistingTagNeverCreated ==
  (outputs.new_tag # Unset /\ outputs.new_tag \in ExistingValidNames)
  => (pc # "createTag" /\ created = <<>> /\ failed = <<>>)

\* C3: a run on a ref that contains refs/pull/ is never treated as a Release
\* or PreRelease run and never calls createTag, whatever the branch patterns.
C3_PullRequestNeverTagged ==
  (pc # "start" /\ isPr(inputs.GITHUB_REF))
  => (~isReleaseBranch /\ ~isPrerelease /\ pc # "createTag" /\ created = <<>>)

\* C4: with a non-empty custom_tag, release_type is custom, new_version is the
\* literal unchanged, new_tag is tag_prefix followed by the literal, and
\* previous_version and previous_tag are never set.
C4_CustomTagVerbatim ==
  Len(inputs.customTag) > 0 =>
    /\ outputs.previous_version = Unset
    /\ outputs.previous_tag = Unset
    /\ outputs.new_version # Unset =>
         /\ outputs.release_type = "custom"
         /\ outputs.new_version = inputs.customTag
         /\ outputs.new_tag = inputs.tagPrefix \o inputs.customTag

\* the default that applies to the branch
ApplicableDefault ==
  IF isPrerelease THEN inputs.defaultPreReleaseBump ELSE inputs.defaultBump

OnReleaseOrPreReleaseBranch == isReleaseBranch \/ isPrerelease

V123 == [major |-> 1, minor |-> 2, patch |-> 3, prerelease |-> <<>>]

\* C5: when commit analysis finds no bump on a release or pre-release branch
\* and the applicable default is a release type, the run neither skips for
\* lack of a bump nor fails, release_type is that default and new_version is
\* the previous version incremented by it with the identifier, in the version
\* format (1.2.3 on branch rc with preminor gives 1.3.0-rc.0); when the
\* default is false, the run ends without a tag and without a failure.
C5_DefaultSubstitutesForMissingSignal ==
  ( /\ Called("analyzeCommits")
    /\ signal = "null"
    /\ OnReleaseOrPreReleaseBranch )
  => IF ApplicableDefault = "false"
     THEN /\ outcome = "skipped_no_bump"
          /\ pc = "done"
          /\ created = <<>>
          /\ failed = <<>>
          /\ outputs.new_tag = Unset
     ELSE /\ outcome \notin {"skipped_no_bump", "failed"}
          /\ failed = <<>>
          /\ outputs.release_type = ApplicableDefault
          /\ outputs.new_version # Unset =>
               /\ outputs.new_version =
                    convertVersionFormat(
                      VersionString(inc(previousVersion, ApplicableDefault, identifier)),
                      inputs.versionFormat)
               /\ ( /\ previousVersion = V123
                    /\ isPrerelease
                    /\ identifier = PatRc
                    /\ inputs.defaultPreReleaseBump = "preminor"
                    /\ inputs.versionFormat = FmtFull )
                  => outputs.new_version = <<"1", ".", "3", ".", "0", "-", "r", "c", ".", "0">>

\* the pre-release run whose previous version has a suffix and whose
\* default_prerelease_bump is prerelease, once its release type is set
C6_Case ==
  /\ Resolved
  /\ isPrerelease
  /\ Len(previousVersion.prerelease) > 0
  /\ inputs.defaultPreReleaseBump = "prerelease"

\* s without the digits it ends in
RECURSIVE DropTrailingDigits(_)
DropTrailingDigits(s) ==
  IF Len(s) > 0 /\ IsDigit(s[Len(s)])
  THEN DropTrailingDigits(SubSeq(s, 1, Len(s) - 1)) ELSE s

\* the digits s ends in
TrailingDigits(s) == SubSeq(s, Len(DropTrailingDigits(s)) + 1, Len(s))

\* C6: in that run, for every signal, release_type is prerelease and
\* new_version keeps the previous major.minor.patch and identifier and only
\* raises the pre-release counter by one (1.2.3-rc.1 becomes 1.2.3-rc.2).
C6_CounterAlwaysRaised ==
  C6_Case =>
    /\ outputs.release_type = "prerelease"
    /\ outputs.new_version # Unset =>
         LET prev == convertVersionFormat(outputs.previous_version,
                                          inputs.versionFormat)
         IN /\ DropTrailingDigits(outputs.new_version) = DropTrailingDigits(prev)
            /\ Len(TrailingDigits(prev)) > 0
            /\ StrToNum(TrailingDigits(outputs.new_version))
                 = StrToNum(TrailingDigits(prev)) + 1

\* C7: the resolved bump is upgraded from patch to minor exactly when
\* promote_patch_to_minor is set and the resolved bump is patch, the same for
\* a patch from commit analysis and for one from the configured default; with
\* promote_patch_to_minor false, a patch stays patch.
C7_PromotionOnlyWhenSet ==
  (Resolved /\ ~isPrerelease) =>
    /\ (signal # "null") =>
         bump = IF inputs.promotePatchToMinor = "true" /\ signal = "patch"
                THEN "minor" ELSE signal
    /\ (signal = "null" /\ inputs.defaultBump = "patch") =>
         outputs.release_type =
           IF inputs.promotePatchToMinor = "true" THEN "minor" ELSE "patch"

\* the calls before createTag, in the order main makes them
CallsBeforeCreate ==
  IF Len(inputs.customTag) > 0
  THEN <<"listTags", "compareCommits", "generateNotes">>
  ELSE <<"listTags", "compareCommits", "analyzeCommits", "generateNotes">>

\* C8: createTag is called at most once and only as the last step, after tag
\* listing, previous-version selection, commit comparison, bump computation
\* and changelog generation and after new_tag, new_version and changelog are
\* set; a run that fails, skips or has dry_run true never calls it.
C8_CreateTagLastAndOnce ==
  /\ Len(created) <= 1
  /\ Cardinality({i \in 1..Len(calls) : calls[i] = "createTag"}) = Len(created)
  /\ created # <<>> =>
       /\ calls = Append(CallsBeforeCreate, "createTag")
       /\ pc = "done"
       /\ outcome = "created"
       /\ created = <<outputs.new_tag>>
       /\ outputs.new_tag # Unset
       /\ outputs.new_version # Unset
       /\ outputs.changelog # Unset
       /\ outputs.release_type # "UNSET"
       /\ Len(inputs.customTag) = 0 => (previousTag # -1 /\ previousVersion # NoVersion)
  /\ (failed # <<>> \/ outcome \in {"failed", "skipped_branch", "skipped_no_bump",
                                    "skipped_exists", "dry_run"}) =>
       (created = <<>> /\ ~Called("createTag") /\ pc = "done")
  /\ DryRunSet => (created = <<>> /\ pc # "createTag")

\* C8 witness: a run without custom tag has created its tag
C8_Witness ==
  /\ created # <<>>
  /\ Len(inputs.customTag) = 0
  /\ Called("analyzeCommits")

\* the part of x made of n runs of digits joined by dots
NumericShape(x, n) ==
  LET parts == Split(x, ".")
  IN Len(parts) = n /\ \A k \in 1..n : AllDigits(parts[k])

\* t splits at i and j into a prefix without digit, exactly n numeric
\* components, and a suffix that starts no further component
SplitsAs(t, n, i, j) ==
  /\ \A k \in 1..(i - 1) : ~IsDigit(t[k])
  /\ NumericShape(SubSeq(t, i, j), n)
  /\ j < Len(t) => ~IsDigit(t[j + 1])
  /\ j + 1 < Len(t) => ~(t[j + 1] = "." /\ IsDigit(t[j + 2]))

\* the ".0" components that take n components to three
ZeroFill(n) ==
  IF n = 3 THEN <<>> ELSE IF n = 2 THEN <<".", "0">> ELSE <<".", "0", ".", "0">>

\* C9: for each format F and every tag t with exactly the numeric components F
\* names, between a prefix and a suffix that are not numeric,
\* convertVersionFormat(convertVersionFormat(t, 'MAJOR.MINOR.PATCH'), F) = t:
\* the missing components are filled with 0 on the way to canonical form,
\* dropped on the way back, and prefix and suffix are kept verbatim.
C9_RoundTrip ==
  \A i \in 1..Len(roundTrip.tag) : \A j \in i..Len(roundTrip.tag) :
    SplitsAs(roundTrip.tag, Len(roundTrip.format), i, j) =>
      /\ roundTrip.step \in {"canonical", "restored"} =>
           roundTrip.canonical =
             SubSeq(roundTrip.tag, 1, j) \o ZeroFill(Len(roundTrip.format))
               \o SubSeq(roundTrip.tag, j + 1, Len(roundTrip.tag))
      /\ roundTrip.step = "restored" => roundTrip.restored = roundTrip.tag

\* C9 witness: v1.0- in format MAJOR.MINOR went to v1.0.0- and came back
C9_Witness ==
  /\ roundTrip.step = "restored"
  /\ roundTrip.format = FmtMajorMinor
  /\ roundTrip.tag = <<"v", "1", ".", "0", "-">>
  /\ roundTrip.canonical = <<"v", "1", ".", "0", ".", "0", "-">>
  /\ roundTrip.restored = roundTrip.tag

\* the version of an entry of validTags
VersionOf(tag) == parse(StripPrefix(tag.name, inputs.tagPrefix))

\* getValidTags has returned, and previousTag has rewritten no name yet
TagsListed == Called("listTags") /\ previousTag = -1

\* every entry passes prefix and semver validation, and the entries are the
\* converted tags of the repository that pass it
OnlyValidTags ==
  /\ \A k \in 1..Len(validTags) : IsValidTag(validTags[k], inputs.tagPrefix)
  /\ {validTags[k].sha : k \in 1..Len(validTags)} = ExistingValidNames
  /\ Len(validTags) = Cardinality(ExistingValidNames)
  /\ failed = <<>>

\* C10: the list getValidTags returns is strictly descending by
\* semver precedence, so no two entries are equal in precedence, and holds
\* only tags with the prefix and a valid semver remainder; every other tag is
\* discarded without failing the run.
C10_StrictlyDescending ==
  TagsListed =>
    /\ OnlyValidTags
    /\ \A k \in 1..(Len(validTags) - 1) :
         compare(VersionOf(validTags[k]), VersionOf(validTags[k + 1])) > 0

\* C10, ties allowed: the list getValidTags returns is descending by semver
\* precedence, entries of equal precedence allowed (v1.2 and v1.2.0 both
\* become v1.2.0), and holds only tags whose converted name has the prefix and
\* a valid semver remainder; every other tag is discarded without failing.
C10_Descending ==
  TagsListed =>
    /\ OnlyValidTags
    /\ \A k \in 1..(Len(validTags) - 1) :
         compare(VersionOf(validTags[k]), VersionOf(validTags[k + 1])) >= 0

\* C10 witness: two valid tags came back in the reverse of the listed order
C10_Witness ==
  /\ TagsListed
  /\ Len(repoTags) = 2
  /\ Len(validTags) = 2
  /\ validTags[1].sha = repoTags[2].name
  /\ compare(VersionOf(validTags[1]), VersionOf(validTags[2])) > 0

\* the identifier of the run behind a hyphen
DotLit == <<"-">> \o dotRun.identifier

\* where in t the identifier is followed by a dot and a counter
DottedAt(t) ==
  { p \in 1..Len(t) :
      /\ p + Len(DotLit) + 1 <= Len(t)
      /\ SubSeq(t, p, p + Len(DotLit) - 1) = DotLit
      /\ t[p + Len(DotLit)] = "."
      /\ IsDigit(t[p + Len(DotLit) + 1]) }

\* where in t the identifier is followed by a counter without the dot
UndottedAt(t) ==
  { p \in 1..Len(t) :
      /\ p + Len(DotLit) <= Len(t)
      /\ SubSeq(t, p, p + Len(DotLit) - 1) = DotLit
      /\ IsDigit(t[p + Len(DotLit)]) }

\* t with a dot put in after the identifier that starts at p
WithDotAt(t, p) ==
  SubSeq(t, 1, p + Len(DotLit) - 1) \o <<".">> \o SubSeq(t, p + Len(DotLit), Len(t))

\* C11: removeDotFromPreReleaseIdentifier in 'add' mode returns the tag
\* unchanged when the identifier is already followed by a dot and a counter
\* (-rc.1 stays -rc.1), inserts the dot when it is missing (-rc1 becomes
\* -rc.1), and applied to its own result changes nothing.
C11_AddDotKeepsDottedTags ==
  (dotRun.removeDot = "add" /\ dotRun.step \in {"once", "twice"}) =>
    /\ (DottedAt(dotRun.tag) # {} /\ UndottedAt(dotRun.tag) = {}) =>
         dotRun.once = dotRun.tag
    /\ (UndottedAt(dotRun.tag) # {} /\ DottedAt(dotRun.tag) = {}) =>
         \E p \in UndottedAt(dotRun.tag) : dotRun.once = WithDotAt(dotRun.tag, p)
    /\ dotRun.step = "twice" => dotRun.twice = dotRun.once

====
